---- MODULE Spec2Model ----
(***************************************************************************)
(* Model of the AI meeting agent server (src/server.js).                   *)
(*                                                                         *)
(* State: the process-wide transcript buffer and bot id, the clock read by *)
(* Date.now(), the HTTP handler invocations (each an async function that   *)
(* is suspended at its awaits), and the /listen WebSocket connections.     *)
(* Node runs every handler to its next await without interleaving, so one  *)
(* action is one such run-to-completion segment.                           *)
(***************************************************************************)
EXTENDS Integers, Sequences, FiniteSets, TLC

VARIABLES
    now,               \* the value Date.now() returns (ms)
    transcriptBuffer,  \* server.js:37  sequence of [text, timestamp]
    currentBotId,      \* server.js:44  null or the registered value
    reqs,              \* HTTP handler invocations, one per client slot
    conns,             \* /listen connections: socket and Deepgram session
    wsOut,             \* frames handed to ws.send and not yet received by the peer
    dgIn,              \* data handed to deepgramLive.send and not yet consumed
    dgErrors,          \* error events of each session the server has logged
    cleaned,           \* history of the last eviction of each slot (SpecBriefing only)
    checked            \* history: the bot id each slot's /speak saw at its check

vars == <<now, transcriptBuffer, currentBotId, reqs, conns, wsOut, dgIn, dgErrors, cleaned, checked>>

---------------------------------------------------------------------------
(* Bounds of the model *)

MaxBuf == 2        \* appends are modelled while the buffer is shorter than this
MaxTicks == 2      \* the clock takes the values 0, TickMs, ..., MaxTicks * TickMs
MaxOut == 1        \* frames in flight to one WebSocket peer
MaxIn == 1         \* messages in flight to one transcription session
MaxErrors == 1     \* error events modelled for one transcription session
MaxInitLen == 3    \* longest initial buffer of SpecBriefing

TickMs == 90 * 1000

\* one HTTP client, which issues one request after the other, and one /listen
\* connection
Reqs == {"client"}
Conns == {"recall"}
Instants == {k * TickMs : k \in 0..MaxTicks}

---------------------------------------------------------------------------
(* JavaScript values of request fields: undefined, null, or a string held  *)
(* as its sequence of characters.                                          *)

Undefined == [type |-> "undefined"]
Null == [type |-> "null"]
Str(s) == [type |-> "string", chars |-> s]

\* !v for the values above: undefined, null and "" are falsy
Truthy(v) == v.type = "string" /\ Len(v.chars) > 0

Whitespace == {" "}

RECURSIVE TrimStart(_)
TrimStart(s) ==
    IF s # <<>> /\ Head(s) \in Whitespace THEN TrimStart(Tail(s)) ELSE s

RECURSIVE TrimEnd(_)
TrimEnd(s) ==
    IF s # <<>> /\ s[Len(s)] \in Whitespace
    THEN TrimEnd(SubSeq(s, 1, Len(s) - 1))
    ELSE s

\* String.prototype.trim
Trim(s) == TrimEnd(TrimStart(s))

\* Array.prototype.join over an array of strings
RECURSIVE Join(_, _)
Join(texts, sep) ==
    IF texts = <<>> THEN <<>>
    ELSE IF Len(texts) = 1 THEN texts[1]
    ELSE texts[1] \o sep \o Join(Tail(texts), sep)

---------------------------------------------------------------------------
(* Transcript buffer, server.js:37-55 *)

BUFFER_DURATION_MS == 3 * 60 * 1000

\* the filter callback of cleanTranscriptBuffer (server.js:53)
IsFreshInclusive(entry, t) == (t - entry.timestamp) <= BUFFER_DURATION_MS
IsFreshOneMinute(entry, t) == (t - entry.timestamp) < 60 * 1000
IsFresh(entry, t) == (t - entry.timestamp) < BUFFER_DURATION_MS

\* cleanTranscriptBuffer (server.js:50-55): the buffer it leaves, t = Date.now()
KeepAll(buf, t) == buf
cleanTranscriptBuffer(buf, t) == SelectSeq(buf, LAMBDA entry : IsFresh(entry, t))

\* transcriptBuffer.map(entry => entry.text).join(' ')  (server.js:108-110)
TextsUnseparated(buf) == Join([i \in 1..Len(buf) |-> buf[i].text], <<>>)
TranscriptText(buf) == Join([i \in 1..Len(buf) |-> buf[i].text], <<" ">>)

---------------------------------------------------------------------------
(* HTTP handler invocations.  pc is the await the handler is suspended at; *)
(* sent is the sequence of collaborator requests this invocation issued;   *)
(* resp is what it passed to res.status(..).json(..).                      *)

NoResp == [status |-> 0, body |-> [none |-> TRUE]]

IdleReq ==
    [pc |-> "idle", endpoint |-> "none", transcriptText |-> <<>>,
     audioSize |-> 0, sent |-> <<>>, resp |-> NoResp]

\* the handler has answered: its locals are dead
RespondedBadRequest(endpoint, sent, status, body) ==
    [pc |-> "done", endpoint |-> endpoint, transcriptText |-> <<>>,
     audioSize |-> 0, sent |-> sent, resp |-> [status |-> 400, body |-> body]]
Responded(endpoint, sent, status, body) ==
    [pc |-> "done", endpoint |-> endpoint, transcriptText |-> <<>>,
     audioSize |-> 0, sent |-> sent, resp |-> [status |-> status, body |-> body]]

\* a client slot can issue a request when it has none in flight
CanStart(r) == reqs[r].pc \in {"idle", "done"}

Has(body, f) == f \in DOMAIN body

---------------------------------------------------------------------------
(* GET /  (server.js:60-71) *)

Health(r) ==
    /\ CanStart(r)
    /\ reqs' = [reqs EXCEPT ![r] =
          Responded("GET /", <<>>, 200,
                    [status |-> "running",
                     message |-> "AI Meeting Agent Server is operational",
                     endpoints |-> {"briefing", "speak", "listen", "setBotId"}])]
    /\ UNCHANGED <<now, transcriptBuffer, currentBotId, conns, wsOut, dgIn, dgErrors, cleaned, checked>>

---------------------------------------------------------------------------
(* POST /set-bot-id  (server.js:77-84) *)

BotIdInputs ==
    { Undefined,
      Str(<<>>),
      Str(<<"b", "_", "1">>),
      Str(<<"B", "-", "2">>),
      Str(<<".", ".", "/", "x">>) }

\* the negation of the guard of server.js:79
AcceptsAnyString(botId) == botId.type = "string"
AcceptsAnyBody(botId) == TRUE
AcceptsBotId(botId) == Truthy(botId)

\* server.js:82
KeepFirstBotId(current, botId) == IF current = Null THEN botId ELSE current
StoredBotId(current, botId) == botId

SetBotId(r, botId) ==
    /\ CanStart(r)
    /\ IF ~AcceptsBotId(botId)
       THEN /\ reqs' = [reqs EXCEPT ![r] =
                  Responded("POST /set-bot-id", <<>>, 400,
                            [error |-> "botId is required"])]
            /\ UNCHANGED currentBotId
       ELSE /\ currentBotId' = StoredBotId(currentBotId, botId)
            /\ reqs' = [reqs EXCEPT ![r] =
                  Responded("POST /set-bot-id", <<>>, 200,
                            [success |-> TRUE, botId |-> currentBotId'])]
    /\ UNCHANGED <<now, transcriptBuffer, conns, wsOut, dgIn, dgErrors, cleaned, checked>>

---------------------------------------------------------------------------
(* POST /briefing  (server.js:94-144) *)

NoDataSummary == "No conversation data available yet."

\* server.js:100
NeverShortCircuits(buf) == FALSE
AlwaysShortCircuits(buf) == TRUE
ShortCircuits(buf) == Len(buf) = 0

\* the request of server.js:116-124; the data: URL carries the text in base64
SummarizeCall(text) ==
    [to |-> "deepgram.listen.prerecorded.transcribeUrl",
     scheme |-> "data:text/plain;base64", text |-> text]

\* server.js:96-124: evict, answer at once on an empty window, otherwise join
\* the texts and issue the summarization request
BriefingStart(r) ==
    /\ CanStart(r)
    /\ transcriptBuffer' = cleanTranscriptBuffer(transcriptBuffer, now)
    /\ IF ShortCircuits(transcriptBuffer')
       THEN reqs' = [reqs EXCEPT ![r] =
                Responded("POST /briefing", <<>>, 200,
                          [summary |-> NoDataSummary, transcriptLength |-> 0])]
       ELSE reqs' = [reqs EXCEPT ![r] =
                [pc |-> "summarize", endpoint |-> "POST /briefing",
                 transcriptText |-> TranscriptText(transcriptBuffer'),
                 audioSize |-> 0,
                 sent |-> <<SummarizeCall(TranscriptText(transcriptBuffer'))>>,
                 resp |-> NoResp]]
    /\ UNCHANGED <<now, currentBotId, conns, wsOut, dgIn, dgErrors, checked>>

Briefing(r) == BriefingStart(r) /\ UNCHANGED cleaned

\* what transcribeUrl can settle with: a rejection, { error }, a result with
\* results.summary.short, a result without it
SummarizeOutcomes == {"throw", "error", "summary", "no_summary"}

\* server.js:126: the settled value carries an error
IgnoresError(outcome) == FALSE
IsErrorResult(outcome) == outcome = "error"

\* server.js:126-143
BriefingReturn(r, outcome) ==
    /\ reqs[r].pc = "summarize"
    /\ reqs' = [reqs EXCEPT ![r] =
          CASE outcome = "throw" ->
                 Responded("POST /briefing", reqs[r].sent, 500,
                           [error |-> "Internal server error"])
            [] IsErrorResult(outcome) ->
                 Responded("POST /briefing", reqs[r].sent, 500,
                           [error |-> "Failed to generate summary"])
            [] OTHER ->
                 Responded("POST /briefing", reqs[r].sent, 200,
                           [summary |-> IF outcome = "summary"
                                        THEN "<results.summary.short>"
                                        ELSE "Unable to generate summary",
                            transcriptLength |-> Len(reqs[r].transcriptText),
                            bufferSize |-> Len(transcriptBuffer)])]
    /\ UNCHANGED <<now, transcriptBuffer, currentBotId, conns, wsOut, dgIn, dgErrors, cleaned, checked>>

---------------------------------------------------------------------------
(* POST /speak  (server.js:155-235) *)

SpeakTextInputs == { Undefined, Str(<<>>), Str(<<"y", "o">>) }

\* the negation of the guard of server.js:160
HasTextUnlessAbsent(text) == text.type # "undefined"
HasText(text) == Truthy(text)

\* the negation of the guard of server.js:164
HasTargetAlways(botId) == TRUE
HasTarget(botId) == Truthy(botId)

\* the request of server.js:173-180
SynthesisCall(text) == [to |-> "deepgram.speak.request", text |-> text]

\* the request of server.js:203-212, to
\* https://api.recall.ai/api/v1/bot/${currentBotId}/play_audio
PlayAudioCall(botId, size) ==
    [to |-> "recall.play_audio", botId |-> botId, audioSize |-> size]

\* server.js:157-180
SpeakBegin(r, text) ==
    /\ CanStart(r)
    /\ reqs' = [reqs EXCEPT ![r] =
          IF ~HasText(text)
          THEN Responded("POST /speak", <<>>, 400,
                         [error |-> "text field is required"])
          ELSE IF ~HasTarget(currentBotId)
          THEN Responded("POST /speak", <<>>, 400,
                         [error |-> "Bot ID not set. Use POST /set-bot-id first."])
          ELSE [pc |-> "tts_request", endpoint |-> "POST /speak",
                transcriptText |-> <<>>, audioSize |-> 0,
                sent |-> <<SynthesisCall(text.chars)>>, resp |-> NoResp]]
    /\ UNCHANGED <<now, transcriptBuffer, currentBotId, conns, wsOut, dgIn, dgErrors, cleaned>>

SpeakStart(r, text) == SpeakBegin(r, text) /\ UNCHANGED checked

\* server.js:231-234
SpeakFailedAfterRetry(r, details) ==
    Responded("POST /speak", reqs[r].sent \o reqs[r].sent, 500,
              [error |-> "Internal server error", details |-> details])
SpeakFailedAsPartial(r, details) ==
    Responded("POST /speak", reqs[r].sent, 200,
              [success |-> FALSE,
               message |-> "Audio generated but failed to send to meeting",
               error |-> details, audioSize |-> reqs[r].audioSize])
SpeakFailed(r, details) ==
    Responded("POST /speak", reqs[r].sent, 500,
              [error |-> "Internal server error", details |-> details])

\* server.js:173-183: deepgram.speak.request settles; on success getStream is called
SpeakRequestReturn(r, ok) ==
    /\ reqs[r].pc = "tts_request"
    /\ reqs' = [reqs EXCEPT ![r] =
          IF ok THEN [reqs[r] EXCEPT !.pc = "tts_stream"]
          ELSE SpeakFailed(r, "<error.message>")]
    /\ UNCHANGED <<now, transcriptBuffer, currentBotId, conns, wsOut, dgIn, dgErrors, cleaned, checked>>

\* the sizes of the chunks a stream can yield before it ends
ChunkLists == { <<>>, <<44>>, <<44, 2>> }
StreamOutcomes ==
    {[kind |-> "throw"], [kind |-> "null"]}
        \cup {[kind |-> "stream", chunks |-> l] : l \in ChunkLists}

RECURSIVE Sum(_)
Sum(sizes) == IF sizes = <<>> THEN 0 ELSE Head(sizes) + Sum(Tail(sizes))

\* server.js:183-212: getStream settles and the stream is read to its end; then the
\* playback request is issued for the bot id the registry holds at that moment
SpeakStreamReturn(r, outcome) ==
    /\ reqs[r].pc = "tts_stream"
    /\ reqs' = [reqs EXCEPT ![r] =
          CASE outcome.kind = "throw" -> SpeakFailed(r, "<error.message>")
            [] outcome.kind = "null" ->
                 SpeakFailed(r, "Failed to get audio stream from Deepgram")
            [] OTHER ->
                 [reqs[r] EXCEPT
                    !.pc = "play_audio",
                    !.audioSize = Sum(outcome.chunks),
                    !.sent = Append(@, PlayAudioCall(currentBotId,
                                                     Sum(outcome.chunks)))]]
    /\ UNCHANGED <<now, transcriptBuffer, currentBotId, conns, wsOut, dgIn, dgErrors, cleaned, checked>>

\* server.js:220-229
DeliveryFailedAsBadGateway(r) ==
    Responded("POST /speak", reqs[r].sent, 502,
              [error |-> "<recallError.message>"])
DeliveryFailedAsError(r) == SpeakFailed(r, "<recallError.message>")
DeliveryFailed(r) ==
    Responded("POST /speak", reqs[r].sent, 200,
              [success |-> FALSE,
               message |-> "Audio generated but failed to send to meeting",
               error |-> "<recallError.message>",
               audioSize |-> reqs[r].audioSize])

\* server.js:203-229: axios.post settles
SpeakPlayReturn(r, ok) ==
    /\ reqs[r].pc = "play_audio"
    /\ reqs' = [reqs EXCEPT ![r] =
          IF ok
          THEN Responded("POST /speak", reqs[r].sent, 200,
                         [success |-> TRUE,
                          message |-> "Text converted to speech and sent to meeting",
                          audioSize |-> reqs[r].audioSize])
          ELSE DeliveryFailed(r)]
    /\ UNCHANGED <<now, transcriptBuffer, currentBotId, conns, wsOut, dgIn, dgErrors, cleaned, checked>>

---------------------------------------------------------------------------
(* WebSocket /listen  (server.js:260-324) *)

NoConn == [ws |-> "none", deepgramLive |-> "null"]

\* server.js:320-323: the catch of the connection handler
SetupFailedLeftOpen == [ws |-> "open", deepgramLive |-> "null"]
SetupFailed == [ws |-> "closed", deepgramLive |-> "null"]

\* server.js:260-273, 320-323: deepgram.listen.live returns a session and the
\* handlers are registered, or it throws and the socket is closed
Connect(c, ok) ==
    /\ conns[c].ws = "none"
    /\ conns' = [conns EXCEPT ![c] =
          IF ok THEN [ws |-> "open", deepgramLive |-> "live"]
          ELSE SetupFailed]
    /\ UNCHANGED <<now, transcriptBuffer, currentBotId, reqs, wsOut, dgIn, dgErrors, cleaned, checked>>

\* data.channel?.alternatives?.[0]?.transcript of a result
TranscriptInputs ==
    { Undefined, Str(<<>>), Str(<<" ">>), Str(<<"h", "i">>), Str(<<" ", "o", "k">>) }

\* server.js:279
IsNonEmpty(transcript) == Truthy(transcript)
IsAnyText(transcript) == transcript.type = "string"
IsSpeech(transcript) == Truthy(transcript) /\ Len(Trim(transcript.chars)) > 0

TranscriptFrame(text, t) == [type |-> "transcript", text |-> text, timestamp |-> t]

\* server.js:289: ws is the socket of the connection whose handler registered
\* the listener
EveryOpenSocket(c) == { d \in DOMAIN conns : conns[d].ws = "open" }
Recipients(c) == {c}

\* server.js:276-295
OnTranscript(c, transcript) ==
    /\ conns[c].ws = "open"
    /\ conns[c].deepgramLive = "live"
    /\ IF IsSpeech(transcript)
       THEN /\ Len(transcriptBuffer) < MaxBuf
            /\ Len(wsOut[c]) < MaxOut
            /\ transcriptBuffer' =
                  Append(transcriptBuffer,
                         [text |-> transcript.chars, timestamp |-> now])
            /\ wsOut' = [d \in DOMAIN wsOut |->
                  IF d \in Recipients(c)
                  THEN Append(wsOut[d], TranscriptFrame(transcript.chars, now))
                  ELSE wsOut[d]]
       ELSE UNCHANGED <<transcriptBuffer, wsOut>>
    /\ UNCHANGED <<now, currentBotId, reqs, conns, dgIn, dgErrors, cleaned, checked>>

\* the peer of the connection receives the oldest frame in flight
PeerReceive(c) ==
    /\ wsOut[c] # <<>>
    /\ wsOut' = [wsOut EXCEPT ![c] = Tail(@)]
    /\ UNCHANGED <<now, transcriptBuffer, currentBotId, reqs, conns, dgIn, dgErrors, cleaned, checked>>

\* server.js:311-313: the session after the close handler ran
LeftRunning(session) == session
AfterClose(session) == IF session = "live" THEN "finished" ELSE session

\* server.js:309-314
OnClose(c) ==
    /\ conns[c].ws = "open"
    /\ conns' = [conns EXCEPT ![c] =
          [ws |-> "closed", deepgramLive |-> AfterClose(conns[c].deepgramLive)]]
    /\ UNCHANGED <<now, transcriptBuffer, currentBotId, reqs, wsOut, dgIn, dgErrors, cleaned, checked>>

\* the frames a peer can send: binary audio, or text; payloads are bytes
ListenFrames ==
    { [binary |-> TRUE, payload |-> <<82, 73>>],
      [binary |-> TRUE, payload |-> <<0>>],
      [binary |-> FALSE, payload |-> <<104, 105>>] }

\* what ws hands to a 'message' listener: from version 8 on (ARCHITECTURE.md:167
\* has ws v8.17+) a Buffer, for a text frame as for a binary one
WsData(frame) == [isBuffer |-> TRUE, bytes |-> frame.payload]

\* server.js:304
NeverForwards(c, data) == FALSE
Forwards(c, data) == conns[c].deepgramLive # "null" /\ data.isBuffer

\* server.js:302-307
OnMessage(c, frame) ==
    /\ conns[c].ws = "open"
    /\ IF Forwards(c, WsData(frame))
       THEN /\ Len(dgIn[c]) < MaxIn
            /\ dgIn' = [dgIn EXCEPT ![c] = Append(@, WsData(frame).bytes)]
       ELSE UNCHANGED dgIn
    /\ UNCHANGED <<now, transcriptBuffer, currentBotId, reqs, conns, wsOut,
                   dgErrors, cleaned, checked>>

\* the transcription session consumes the oldest message in flight
DeepgramReceive(c) ==
    /\ dgIn[c] # <<>>
    /\ dgIn' = [dgIn EXCEPT ![c] = Tail(@)]
    /\ UNCHANGED <<now, transcriptBuffer, currentBotId, reqs, conns, wsOut,
                   dgErrors, cleaned, checked>>

\* server.js:297-299: the handler only logs
ErrorClosesSocket(c) == [ws |-> "closed", deepgramLive |-> "finished"]
AfterSessionError(c) == conns[c]

OnDeepgramError(c) ==
    /\ conns[c].deepgramLive # "null"
    /\ dgErrors[c] < MaxErrors
    /\ dgErrors' = [dgErrors EXCEPT ![c] = @ + 1]
    /\ conns' = [conns EXCEPT ![c] = AfterSessionError(c)]
    /\ UNCHANGED <<now, transcriptBuffer, currentBotId, reqs, wsOut, dgIn, cleaned, checked>>

---------------------------------------------------------------------------
(* The clock *)

Tick(t) ==
    /\ t > now
    /\ now' = t
    /\ UNCHANGED <<transcriptBuffer, currentBotId, reqs, conns, wsOut, dgIn, dgErrors, cleaned, checked>>

---------------------------------------------------------------------------
(* The server after start-up (server.js:37, 44) and its steps *)

NoClean == [before |-> <<>>, at |-> 0, after |-> <<>>, ran |-> FALSE]
NoCheck == [type |-> "unchecked"]

Init ==
    /\ now = 0
    /\ transcriptBuffer = <<>>
    /\ currentBotId = Null
    /\ reqs = [r \in Reqs |-> IdleReq]
    /\ conns = [c \in Conns |-> NoConn]
    /\ wsOut = [c \in Conns |-> <<>>]
    /\ dgIn = [c \in Conns |-> <<>>]
    /\ dgErrors = [c \in Conns |-> 0]
    /\ cleaned = [r \in Reqs |-> NoClean]
    /\ checked = [r \in Reqs |-> NoCheck]

Next ==
    \/ \E r \in Reqs : Health(r)
    \/ \E r \in Reqs, botId \in BotIdInputs : SetBotId(r, botId)
    \/ \E r \in Reqs : Briefing(r)
    \/ \E r \in Reqs, outcome \in SummarizeOutcomes : BriefingReturn(r, outcome)
    \/ \E r \in Reqs, text \in SpeakTextInputs : SpeakStart(r, text)
    \/ \E r \in Reqs, ok \in BOOLEAN : SpeakRequestReturn(r, ok)
    \/ \E r \in Reqs, outcome \in StreamOutcomes : SpeakStreamReturn(r, outcome)
    \/ \E r \in Reqs, ok \in BOOLEAN : SpeakPlayReturn(r, ok)
    \/ \E c \in Conns, ok \in BOOLEAN : Connect(c, ok)
    \/ \E c \in Conns, transcript \in TranscriptInputs : OnTranscript(c, transcript)
    \/ \E c \in Conns : PeerReceive(c)
    \/ \E c \in Conns : OnClose(c)
    \/ \E t \in Instants : Tick(t)

Spec == Init /\ [][Next]_vars

---------------------------------------------------------------------------
(* The /listen relay on its own: connections, audio in, results out.       *)

NextListen ==
    \/ \E c \in Conns, ok \in BOOLEAN : Connect(c, ok)
    \/ \E c \in Conns, frame \in ListenFrames : OnMessage(c, frame)
    \/ \E c \in Conns : DeepgramReceive(c)
    \/ \E c \in Conns, transcript \in TranscriptInputs : OnTranscript(c, transcript)
    \/ \E c \in Conns : PeerReceive(c)
    \/ \E c \in Conns : OnDeepgramError(c)
    \/ \E c \in Conns : OnClose(c)
    \/ \E t \in Instants : Tick(t)

SpecListen == Init /\ [][NextListen]_vars

\* two /listen connections at once, each with the session its handler made
TwoConns == {"recall", "other"}

InitTwo ==
    /\ now = 0
    /\ transcriptBuffer = <<>>
    /\ currentBotId = Null
    /\ reqs = [r \in Reqs |-> IdleReq]
    /\ conns = [c \in TwoConns |-> NoConn]
    /\ wsOut = [c \in TwoConns |-> <<>>]
    /\ dgIn = [c \in TwoConns |-> <<>>]
    /\ dgErrors = [c \in TwoConns |-> 0]
    /\ cleaned = [r \in Reqs |-> NoClean]
    /\ checked = [r \in Reqs |-> NoCheck]

NextListenTwo ==
    \/ \E c \in TwoConns, ok \in BOOLEAN : Connect(c, ok)
    \/ \E c \in TwoConns, transcript \in TranscriptInputs : OnTranscript(c, transcript)
    \/ \E c \in TwoConns : PeerReceive(c)
    \/ \E c \in TwoConns : OnClose(c)

SpecListenTwo == InitTwo /\ [][NextListenTwo]_vars

---------------------------------------------------------------------------
(* /briefing on its own, started from any buffer the server can hold: the  *)
(* entries of a meeting in the order they were appended, none younger than *)
(* the clock.  cleaned records, for each slot, what its last eviction saw   *)
(* and left.                                                                *)

BriefingInstants == {0, 60000, 150000, 180000, 200000}
EntryTexts == { <<"h", "i">>, <<" ", "o", "k">> }

RECURSIVE BuffersUpTo(_, _)
BuffersUpTo(n, t) ==
    IF n = 0 THEN { <<>> }
    ELSE LET shorter == BuffersUpTo(n - 1, t)
         IN  shorter \cup
             { Append(b, [text |-> x, timestamp |-> u]) :
                 b \in { c \in shorter : Len(c) = n - 1 },
                 x \in EntryTexts,
                 u \in { v \in BriefingInstants : v <= t } }

Chronological(buf) ==
    \A i \in 1..(Len(buf) - 1) : buf[i].timestamp <= buf[i + 1].timestamp

InitBriefing ==
    /\ now \in BriefingInstants
    /\ transcriptBuffer \in { b \in BuffersUpTo(MaxInitLen, now) : Chronological(b) }
    /\ currentBotId = Null
    /\ reqs = [r \in Reqs |-> IdleReq]
    /\ conns = [c \in Conns |-> NoConn]
    /\ wsOut = [c \in Conns |-> <<>>]
    /\ dgIn = [c \in Conns |-> <<>>]
    /\ dgErrors = [c \in Conns |-> 0]
    /\ cleaned = [r \in Reqs |-> NoClean]
    /\ checked = [r \in Reqs |-> NoCheck]

BriefingObserved(r) ==
    /\ BriefingStart(r)
    /\ cleaned' = [cleaned EXCEPT ![r] =
          [before |-> transcriptBuffer, at |-> now,
           after |-> transcriptBuffer', ran |-> TRUE]]

NextBriefing ==
    \/ \E r \in Reqs : BriefingObserved(r)
    \/ \E r \in Reqs, outcome \in SummarizeOutcomes : BriefingReturn(r, outcome)
    \/ \E t \in BriefingInstants : Tick(t)

SpecBriefing == InitBriefing /\ [][NextBriefing]_vars

\* every handler of the server: the HTTP endpoints and the events of a
\* /listen connection
NextAll ==
    \/ \E r \in Reqs : Health(r)
    \/ \E r \in Reqs, botId \in BotIdInputs : SetBotId(r, botId)
    \/ \E r \in Reqs : Briefing(r)
    \/ \E r \in Reqs, outcome \in SummarizeOutcomes : BriefingReturn(r, outcome)
    \/ \E r \in Reqs, text \in SpeakTextInputs : SpeakStart(r, text)
    \/ \E r \in Reqs, ok \in BOOLEAN : SpeakRequestReturn(r, ok)
    \/ \E r \in Reqs, outcome \in StreamOutcomes : SpeakStreamReturn(r, outcome)
    \/ \E r \in Reqs, ok \in BOOLEAN : SpeakPlayReturn(r, ok)
    \/ \E c \in Conns, ok \in BOOLEAN : Connect(c, ok)
    \/ \E c \in Conns, frame \in ListenFrames : OnMessage(c, frame)
    \/ \E c \in Conns, transcript \in TranscriptInputs : OnTranscript(c, transcript)
    \/ \E c \in Conns : OnDeepgramError(c)
    \/ \E c \in Conns : OnClose(c)

SpecAll == Init /\ [][NextAll]_vars

\* the HTTP handlers with every collaborator call settling at some time: a
\* pending promise of transcribeUrl, speak.request, getStream with the stream,
\* or axios.post resolves or rejects
NextRequests ==
    \/ \E r \in Reqs, botId \in BotIdInputs : SetBotId(r, botId)
    \/ \E r \in Reqs : Briefing(r)
    \/ \E r \in Reqs, outcome \in SummarizeOutcomes : BriefingReturn(r, outcome)
    \/ \E r \in Reqs, text \in SpeakTextInputs : SpeakStart(r, text)
    \/ \E r \in Reqs, ok \in BOOLEAN : SpeakRequestReturn(r, ok)
    \/ \E r \in Reqs, outcome \in StreamOutcomes : SpeakStreamReturn(r, outcome)
    \/ \E r \in Reqs, ok \in BOOLEAN : SpeakPlayReturn(r, ok)
    \/ \E c \in Conns, ok \in BOOLEAN : Connect(c, ok)
    \/ \E c \in Conns, transcript \in TranscriptInputs : OnTranscript(c, transcript)

CollaboratorsSettle ==
    /\ WF_vars(\E r \in Reqs, outcome \in SummarizeOutcomes : BriefingReturn(r, outcome))
    /\ WF_vars(\E r \in Reqs, ok \in BOOLEAN : SpeakRequestReturn(r, ok))
    /\ WF_vars(\E r \in Reqs, outcome \in StreamOutcomes : SpeakStreamReturn(r, outcome))
    /\ WF_vars(\E r \in Reqs, ok \in BOOLEAN : SpeakPlayReturn(r, ok))

SpecRequests == Init /\ [][NextRequests]_vars /\ CollaboratorsSettle

\* /speak calls and registrations of two clients side by side; checked records
\* the bot id a /speak call saw when it ran the test of server.js:164
TwoReqs == {"client", "operator"}

InitRace ==
    /\ now = 0
    /\ transcriptBuffer = <<>>
    /\ currentBotId = Null
    /\ reqs = [r \in TwoReqs |-> IdleReq]
    /\ conns = [c \in Conns |-> NoConn]
    /\ wsOut = [c \in Conns |-> <<>>]
    /\ dgIn = [c \in Conns |-> <<>>]
    /\ dgErrors = [c \in Conns |-> 0]
    /\ cleaned = [r \in TwoReqs |-> NoClean]
    /\ checked = [r \in TwoReqs |-> NoCheck]

SpeakObserved(r, text) ==
    /\ SpeakBegin(r, text)
    /\ checked' = [checked EXCEPT ![r] = currentBotId]

NextSpeakRace ==
    \/ \E r \in TwoReqs, botId \in BotIdInputs : SetBotId(r, botId)
    \/ \E r \in TwoReqs, text \in SpeakTextInputs : SpeakObserved(r, text)
    \/ \E r \in TwoReqs, ok \in BOOLEAN : SpeakRequestReturn(r, ok)
    \/ \E r \in TwoReqs, outcome \in StreamOutcomes : SpeakStreamReturn(r, outcome)
    \/ \E r \in TwoReqs, ok \in BOOLEAN : SpeakPlayReturn(r, ok)

SpecSpeakRace == InitRace /\ [][NextSpeakRace]_vars

\* /briefing while a meeting is transcribed, with the history of its evictions
NextBriefingLive ==
    \/ \E r \in Reqs : BriefingObserved(r)
    \/ \E r \in Reqs, outcome \in SummarizeOutcomes : BriefingReturn(r, outcome)
    \/ \E c \in Conns, ok \in BOOLEAN : Connect(c, ok)
    \/ \E c \in Conns, transcript \in TranscriptInputs : OnTranscript(c, transcript)
    \/ \E c \in Conns : PeerReceive(c)
    \/ \E c \in Conns : OnClose(c)
    \/ \E t \in Instants : Tick(t)

SpecBriefingLive == Init /\ [][NextBriefingLive]_vars

---------------------------------------------------------------------------
(* Properties *)

ThreeMinutes == 3 * 60 * 1000

Timestamps(buf) == [i \in 1..Len(buf) |-> buf[i].timestamp]

StrictlyIncreasing(buf) ==
    \A i \in 1..(Len(buf) - 1) : buf[i].timestamp < buf[i + 1].timestamp

\* the positions of buf whose entry is younger than three minutes at time t
YoungAt(buf, t) == { i \in 1..Len(buf) : t - buf[i].timestamp < ThreeMinutes }

\* out is buf restricted to the positions young at t, in the order of buf:
\* the k-th young position of buf is the k-th entry of out
IsWindowOf(out, buf, t) ==
    /\ Len(out) = Cardinality(YoungAt(buf, t))
    /\ \A i \in YoungAt(buf, t) :
          out[Cardinality({ j \in YoungAt(buf, t) : j <= i })] = buf[i]

BriefingAnswered(r) == reqs[r].endpoint = "POST /briefing" /\ reqs[r].pc = "done"

\* C1: an eviction at time t of a buffer whose timestamps strictly increase
\* leaves exactly the entries with t - timestamp < 3 minutes, in their order;
\* entries at 0 s, 60 s, 150 s evicted at 200 s leave the last two.
C1_EvictionLeavesTheWindow ==
    \A r \in Reqs :
        (cleaned[r].ran /\ StrictlyIncreasing(cleaned[r].before)) =>
            /\ IsWindowOf(cleaned[r].after, cleaned[r].before, cleaned[r].at)
            /\ (/\ Timestamps(cleaned[r].before) = <<0, 60000, 150000>>
                /\ cleaned[r].at = 200000)
                  => cleaned[r].after = SubSeq(cleaned[r].before, 2, 3)

C1_Witness ==
    \E r \in Reqs :
        /\ cleaned[r].ran
        /\ Timestamps(cleaned[r].before) = <<0, 60000, 150000>>
        /\ cleaned[r].at = 200000
        /\ Timestamps(cleaned[r].after) = <<60000, 150000>>

\* C2: the text a /briefing call submits for summarization is the text of the
\* buffer as the call's eviction left it, and no entry of it is three minutes
\* old or older at the time of that eviction.
C2_SubmittedTextHasNoStaleEntry ==
    \A r \in Reqs :
        reqs[r].sent # <<>> =>
            /\ cleaned[r].ran
            /\ reqs[r].sent[1].to = "deepgram.listen.prerecorded.transcribeUrl"
            /\ reqs[r].sent[1].text = TranscriptText(cleaned[r].after)
            /\ \A i \in 1..Len(cleaned[r].after) :
                  cleaned[r].at - cleaned[r].after[i].timestamp < ThreeMinutes

C2_Witness ==
    \E r \in Reqs :
        /\ reqs[r].pc = "summarize"
        /\ reqs[r].sent # <<>>
        /\ Len(cleaned[r].after) > 0
        /\ \E i \in 1..Len(cleaned[r].before) :
              cleaned[r].at - cleaned[r].before[i].timestamp >= ThreeMinutes

\* C3: a /briefing call whose window is empty, or holds only entries three
\* minutes old or older, answers 200 with the no-data summary and
\* transcriptLength 0, and issues no summarization request.
C3_EmptyWindowShortCircuits ==
    \A r \in Reqs :
        (/\ cleaned[r].ran
         /\ \A i \in 1..Len(cleaned[r].before) :
               cleaned[r].at - cleaned[r].before[i].timestamp >= ThreeMinutes)
        => /\ BriefingAnswered(r)
           /\ reqs[r].resp.status = 200
           /\ Has(reqs[r].resp.body, "summary")
           /\ reqs[r].resp.body.summary = "No conversation data available yet."
           /\ Has(reqs[r].resp.body, "transcriptLength")
           /\ reqs[r].resp.body.transcriptLength = 0
           /\ reqs[r].sent = <<>>

C3_Witness ==
    \E r \in Reqs :
        /\ cleaned[r].ran
        /\ Len(cleaned[r].before) > 0
        /\ cleaned[r].after = <<>>
        /\ BriefingAnswered(r)
        /\ reqs[r].resp.status = 200
        /\ reqs[r].sent = <<>>

\* C4: every 200 response of /briefing has the fields summary, transcriptLength
\* and bufferSize, and the response of a call that issued no summarization
\* request (the empty window) has bufferSize 0.
C4_EveryBriefingResponseHasBufferSize ==
    \A r \in Reqs :
        (BriefingAnswered(r) /\ reqs[r].resp.status = 200) =>
            /\ Has(reqs[r].resp.body, "summary")
            /\ Has(reqs[r].resp.body, "transcriptLength")
            /\ Has(reqs[r].resp.body, "bufferSize")
            /\ reqs[r].sent = <<>> => reqs[r].resp.body.bufferSize = 0

Letters ==
    { "a", "b", "c", "d", "e", "f", "g", "h", "i", "j", "k", "l", "m",
      "n", "o", "p", "q", "r", "s", "t", "u", "v", "w", "x", "y", "z",
      "A", "B", "C", "D", "E", "F", "G", "H", "I", "J", "K", "L", "M",
      "N", "O", "P", "Q", "R", "S", "T", "U", "V", "W", "X", "Y", "Z" }
Digits == { "0", "1", "2", "3", "4", "5", "6", "7", "8", "9" }

\* v is a string of letters, digits, underscores and hyphens only
IsPlainIdentifier(v) ==
    /\ v.type = "string"
    /\ \A i \in 1..Len(v.chars) : v.chars[i] \in Letters \cup Digits \cup {"_", "-"}

IsMissing(v) == v = Undefined \/ v = Str(<<>>)

\* C5: POST /set-bot-id with a botId holding a character other than a letter,
\* a digit, an underscore or a hyphen answers 400 "Invalid botId format" and
\* leaves the registered bot id as it was.
C5_InvalidBotIdIsRejected ==
    [][ \A r \in Reqs, botId \in BotIdInputs :
          (SetBotId(r, botId) /\ ~IsMissing(botId) /\ ~IsPlainIdentifier(botId)) =>
              /\ reqs'[r].resp.status = 400
              /\ reqs'[r].resp.body = [error |-> "Invalid botId format"]
              /\ currentBotId' = currentBotId ]_vars

\* C6: the registered bot id is unset or a string of letters, digits,
\* underscores and hyphens, and so is the bot id in the URL of every playback
\* request.
C6_RegisteredBotIdIsPlain ==
    /\ currentBotId = Null \/ IsPlainIdentifier(currentBotId)
    /\ \A r \in Reqs : \A i \in 1..Len(reqs[r].sent) :
          reqs[r].sent[i].to = "recall.play_audio" =>
              IsPlainIdentifier(reqs[r].sent[i].botId)

\* C7: a POST /set-bot-id with a non-empty botId answers 200
\* {success: true, botId} with that botId and leaves it in the registry,
\* whatever the registry held; no other step changes the registry.
C7_LastRegistrationWins ==
    [][ /\ \A r \in Reqs, botId \in BotIdInputs :
              (SetBotId(r, botId) /\ ~IsMissing(botId)) =>
                  /\ reqs'[r].pc = "done"
                  /\ reqs'[r].resp =
                        [status |-> 200, body |-> [success |-> TRUE, botId |-> botId]]
                  /\ currentBotId' = botId
        /\ (\A r \in Reqs, botId \in BotIdInputs :
              ~(SetBotId(r, botId) /\ ~IsMissing(botId)))
              => currentBotId' = currentBotId ]_vars

SetBotIdAnswered(r) == reqs[r].endpoint = "POST /set-bot-id" /\ reqs[r].pc = "done"

C7_Witness ==
    \E r \in Reqs :
        /\ SetBotIdAnswered(r)
        /\ reqs[r].resp.status = 200
        /\ reqs[r].resp.body.botId = Str(<<"B", "-", "2">>)
        /\ currentBotId = Str(<<"B", "-", "2">>)

\* C8: POST /set-bot-id without a botId, or with the empty string, answers 400
\* "botId is required" and leaves the registered bot id as it was.
C8_MissingBotIdIsRejected ==
    [][ \A r \in Reqs, botId \in BotIdInputs :
          (SetBotId(r, botId) /\ IsMissing(botId)) =>
              /\ reqs'[r].pc = "done"
              /\ reqs'[r].resp =
                    [status |-> 400, body |-> [error |-> "botId is required"]]
              /\ currentBotId' = currentBotId ]_vars

C8_Witness ==
    \E r \in Reqs :
        /\ SetBotIdAnswered(r)
        /\ reqs[r].resp.status = 400
        /\ reqs[r].resp.body.error = "botId is required"
        /\ currentBotId # Null

SpeakAnswered(r) == reqs[r].endpoint = "POST /speak" /\ reqs[r].pc = "done"

\* C9: POST /speak with a non-empty text while the registry is unset answers 400
\* "Bot ID not set. ..." and issues neither a synthesis nor a playback request.
C9_SpeakWithoutBotIsRejected ==
    [][ \A r \in Reqs, text \in SpeakTextInputs :
          (SpeakStart(r, text) /\ ~IsMissing(text) /\ currentBotId = Null) =>
              /\ reqs'[r].pc = "done"
              /\ reqs'[r].resp.status = 400
              /\ reqs'[r].resp.body =
                    [error |-> "Bot ID not set. Use POST /set-bot-id first."]
              /\ reqs'[r].sent = <<>> ]_vars

C9_Witness ==
    \E r \in Reqs :
        /\ SpeakAnswered(r)
        /\ reqs[r].resp.status = 400
        /\ reqs[r].resp.body.error = "Bot ID not set. Use POST /set-bot-id first."
        /\ reqs[r].sent = <<>>
        /\ currentBotId = Null

\* C10: POST /speak without a text, or with the empty string, answers 400 for
\* the missing text whether or not a bot id is registered, issues no request
\* to a collaborator and changes nothing but the response.
C10_SpeakWithoutTextIsRejected ==
    [][ \A r \in Reqs, text \in SpeakTextInputs :
          (SpeakStart(r, text) /\ IsMissing(text)) =>
              /\ reqs'[r].pc = "done"
              /\ reqs'[r].resp =
                    [status |-> 400, body |-> [error |-> "text field is required"]]
              /\ reqs'[r].sent = <<>>
              /\ UNCHANGED <<now, transcriptBuffer, currentBotId, conns, wsOut,
                             dgIn, dgErrors>> ]_vars

C10_Witness ==
    \E r \in Reqs :
        /\ SpeakAnswered(r)
        /\ reqs[r].resp.status = 400
        /\ reqs[r].resp.body.error = "text field is required"
        /\ reqs[r].sent = <<>>
        /\ currentBotId # Null

IsPlayAudio(call) == call.to = "recall.play_audio"

NoPlayAudioIn(sent) == \A i \in 1..Len(sent) : ~IsPlayAudio(sent[i])

\* C11 as claimed: when the playback request of a /speak call fails, the
\* response is 200 with success false, an error and a non-zero audioSize.
C11_DeliveryFailureHasNonZeroAudioSize ==
    [][ \A r \in Reqs :
          SpeakPlayReturn(r, FALSE) =>
              /\ reqs'[r].resp.status = 200
              /\ reqs'[r].resp.body.success = FALSE
              /\ Has(reqs'[r].resp.body, "error")
              /\ reqs'[r].resp.body.audioSize > 0 ]_vars

\* C11: when the playback request of a /speak call fails, the response is 200
\* with success false, an error and audioSize, the number of bytes read from
\* the synthesis stream and sent for playback (0 when the stream ended without
\* data, non-zero otherwise); it is not a 500 and not success true.
C11_DeliveryFailureIsPartialSuccess ==
    [][ \A r \in Reqs :
          SpeakPlayReturn(r, FALSE) =>
              /\ reqs'[r].pc = "done"
              /\ reqs'[r].resp.status = 200
              /\ reqs'[r].resp.body.success = FALSE
              /\ Has(reqs'[r].resp.body, "error")
              /\ Has(reqs'[r].resp.body, "audioSize")
              /\ Len(reqs[r].sent) = 2
              /\ IsPlayAudio(reqs[r].sent[2])
              /\ reqs'[r].resp.body.audioSize = reqs[r].sent[2].audioSize ]_vars

C11_Witness ==
    \E r \in Reqs :
        /\ SpeakAnswered(r)
        /\ reqs[r].resp.status = 200
        /\ reqs[r].resp.body.success = FALSE
        /\ reqs[r].resp.body.audioSize > 0
        /\ Has(reqs[r].resp.body, "error")

\* C12: when the synthesis of a /speak call fails (the request or the stream
\* throws, or there is no stream), the response is 500 without audioSize and
\* the call has issued no playback request.
C12_SynthesisFailureIsAnError ==
    [][ \A r \in Reqs :
          (\/ SpeakRequestReturn(r, FALSE)
           \/ SpeakStreamReturn(r, [kind |-> "throw"])
           \/ SpeakStreamReturn(r, [kind |-> "null"])) =>
              /\ reqs'[r].pc = "done"
              /\ reqs'[r].resp.status = 500
              /\ ~Has(reqs'[r].resp.body, "audioSize")
              /\ NoPlayAudioIn(reqs'[r].sent) ]_vars

C12_Witness ==
    \E r \in Reqs :
        /\ SpeakAnswered(r)
        /\ reqs[r].resp.status = 500
        /\ reqs[r].sent # <<>>
        /\ NoPlayAudioIn(reqs[r].sent)
        /\ reqs[r].resp.body.details = "Failed to get audio stream from Deepgram"

\* C13: when the summarization request of a /briefing call settles with an
\* error value or throws, the response is 500 and carries no summary.
C13_SummarizationFailureIsAnError ==
    [][ \A r \in Reqs :
          (BriefingReturn(r, "error") \/ BriefingReturn(r, "throw")) =>
              /\ reqs'[r].pc = "done"
              /\ reqs'[r].resp.status = 500
              /\ ~Has(reqs'[r].resp.body, "summary") ]_vars

C13_Witness ==
    \E r \in Reqs :
        /\ BriefingAnswered(r)
        /\ reqs[r].resp.status = 500
        /\ reqs[r].resp.body.error = "Failed to generate summary"
        /\ reqs[r].sent # <<>>

---------------------------------------------------------------------------
(* The /listen relay *)

HasInk(chars) == \E i \in 1..Len(chars) : chars[i] \notin Whitespace

IsText(transcript) == transcript.type = "string"

C15_OnlyBinaryIsForwarded ==
    [][\A c \in Conns, frame \in ListenFrames :
          OnMessage(c, frame) =>
              IF frame.binary /\ conns[c].deepgramLive = "live"
              THEN dgIn'[c] = Append(dgIn[c], frame.payload)
              ELSE dgIn' = dgIn]_vars

\* C16: the step in which a connection closes finishes the session the
\* connection has, and no connection is closed with its session running.
C16_CloseFinishesTheSession ==
    [][\A c \in Conns :
          /\ (OnClose(c) /\ conns[c].deepgramLive = "live")
                => conns'[c].deepgramLive = "finished"
          /\ conns'[c].ws = "closed" => conns'[c].deepgramLive # "live"]_vars

C16_Witness ==
    \E c \in Conns :
        conns[c].ws = "closed" /\ conns[c].deepgramLive = "finished"

\* C17: an error event of a session leaves the connection open, the session
\* running, the buffer and the bot id as they were; a binary message that
\* arrives after the event is handed to the session.
C17_SessionErrorIsOnlyLogged ==
    [][\A c \in Conns :
          /\ OnDeepgramError(c) =>
                /\ conns' = conns
                /\ transcriptBuffer' = transcriptBuffer
                /\ currentBotId' = currentBotId
                /\ wsOut' = wsOut
                /\ dgIn' = dgIn
          /\ \A frame \in ListenFrames :
                (/\ dgErrors[c] > 0
                 /\ frame.binary
                 /\ conns[c].deepgramLive = "live"
                 /\ OnMessage(c, frame))
                => dgIn'[c] = Append(dgIn[c], frame.payload)]_vars

C17_Witness ==
    \E c \in Conns :
        /\ dgErrors[c] > 0
        /\ conns[c].ws = "open"
        /\ conns[c].deepgramLive = "live"
        /\ dgIn[c] # <<>>

SetupHasFailed(c) == conns[c].ws # "none" /\ conns[c].deepgramLive = "null"

\* C18 (left open): a connection whose session could not be set up stays open.
C18_FailedSetupLeavesConnectionOpen ==
    \A c \in Conns : SetupHasFailed(c) => conns[c].ws = "open"

\* C18: a connection whose session could not be set up is closed by the
\* server in the same step; after that no message of it is handed to a
\* session, no result of it reaches the buffer or the peer, and no second
\* session is started for it.
C18_FailedSetupClosesAndStaysSilent ==
    [][\A c \in Conns :
          /\ Connect(c, FALSE) =>
                conns'[c].ws = "closed" /\ conns'[c].deepgramLive = "null"
          /\ SetupHasFailed(c) =>
                /\ conns[c].ws = "closed"
                /\ conns'[c] = conns[c]
                /\ dgIn'[c] = <<>>
                /\ wsOut'[c] = <<>>
                /\ \A transcript \in TranscriptInputs :
                      ~ OnTranscript(c, transcript)]_vars

C18_Witness ==
    \E c \in Conns :
        /\ conns[c].ws = "closed"
        /\ conns[c].deepgramLive = "null"
        /\ dgIn[c] = <<>>
        /\ wsOut[c] = <<>>

---------------------------------------------------------------------------
(* /briefing: the numbers of its response *)

\* C19: a 200 response of /briefing to a call that issued a summarization
\* request has bufferSize equal to the number of entries the call's eviction
\* left, whose texts the call joined and submitted.
C19_BufferSizeCountsSubmittedEntries ==
    \A r \in Reqs :
        (/\ BriefingAnswered(r)
         /\ reqs[r].resp.status = 200
         /\ reqs[r].sent # <<>>)
        => /\ Has(reqs[r].resp.body, "bufferSize")
           /\ reqs[r].resp.body.bufferSize = Len(cleaned[r].after)

\* the position before the first character of entry k in the joined text
RECURSIVE OffsetOf(_, _)
OffsetOf(buf, k) ==
    IF k = 1 THEN 0 ELSE OffsetOf(buf, k - 1) + Len(buf[k - 1].text) + 1

\* text is the texts of buf in the order of buf with one space between two
\* neighbours and nothing else
IsSpaceJoined(text, buf) ==
    /\ Len(text) = OffsetOf(buf, Len(buf)) + Len(buf[Len(buf)].text)
    /\ \A k \in 1..Len(buf) :
          /\ \A p \in 1..Len(buf[k].text) :
                text[OffsetOf(buf, k) + p] = buf[k].text[p]
          /\ k < Len(buf) =>
                text[OffsetOf(buf, k) + Len(buf[k].text) + 1] = " "

RECURSIVE TotalTextLength(_)
TotalTextLength(buf) ==
    IF buf = <<>> THEN 0 ELSE Len(Head(buf).text) + TotalTextLength(Tail(buf))

\* C20: the text a /briefing call submits is the texts of the entries its
\* eviction left, in buffer order, joined by single spaces, and the
\* transcriptLength of its 200 response is the length of that text: the sum
\* of the entries' text lengths plus the number of entries minus one.
C20_SubmittedTextIsSpaceJoined ==
    \A r \in Reqs :
        (reqs[r].endpoint = "POST /briefing" /\ reqs[r].sent # <<>>) =>
            /\ cleaned[r].after # <<>>
            /\ IsSpaceJoined(reqs[r].sent[1].text, cleaned[r].after)
            /\ (BriefingAnswered(r) /\ reqs[r].resp.status = 200) =>
                  /\ reqs[r].resp.body.transcriptLength
                        = Len(reqs[r].sent[1].text)
                  /\ reqs[r].resp.body.transcriptLength
                        = TotalTextLength(cleaned[r].after)
                            + Len(cleaned[r].after) - 1

C20_Witness ==
    \E r \in Reqs :
        /\ BriefingAnswered(r)
        /\ reqs[r].resp.status = 200
        /\ Len(cleaned[r].after) = 2
        /\ reqs[r].sent # <<>>
        /\ reqs[r].sent[1].text = <<"h", "i", " ", " ", "o", "k">>
        /\ reqs[r].resp.body.transcriptLength = 6

---------------------------------------------------------------------------
(* The transcript buffer in every state *)

IsTrimmed(chars) ==
    /\ chars # <<>>
    /\ chars[1] \notin Whitespace
    /\ chars[Len(chars)] \notin Whitespace

\* C21 (trimmed): the text of every entry of the buffer is non-empty and has
\* no whitespace at its start or its end.
C21_EntriesAreTrimmed ==
    \A i \in 1..Len(transcriptBuffer) : IsTrimmed(transcriptBuffer[i].text)

\* C21: the text of every entry of the buffer has a character that is not
\* whitespace; it is the text as the session delivered it.
C21_EntriesHaveInk ==
    \A i \in 1..Len(transcriptBuffer) : HasInk(transcriptBuffer[i].text)

C21_Witness ==
    \E i \in 1..Len(transcriptBuffer) :
        /\ transcriptBuffer[i].text[1] \in Whitespace
        /\ HasInk(transcriptBuffer[i].text)

IsPrefixOf(short, long) ==
    Len(short) <= Len(long) /\ SubSeq(long, 1, Len(short)) = short

\* C22: the only step that takes entries out of the buffer is the eviction of
\* a /briefing call, and it takes out exactly the entries three minutes old or
\* older; every other step, a transcription result included, leaves what the
\* buffer holds in place whatever its length; the step that answers a
\* /briefing call leaves the buffer as it is, entries appended while its
\* summarization request was in flight included.
C22_EntriesLeaveOnlyByAgeEviction ==
    [][/\ (~ \E r \in Reqs : BriefingObserved(r))
             => IsPrefixOf(transcriptBuffer, transcriptBuffer')
       /\ \A r \in Reqs :
             BriefingObserved(r)
                => IsWindowOf(transcriptBuffer', transcriptBuffer, now)
       /\ \A r \in Reqs, outcome \in SummarizeOutcomes :
             BriefingReturn(r, outcome)
                => transcriptBuffer' = transcriptBuffer]_vars

C22_Witness ==
    \E r \in Reqs :
        /\ cleaned[r].ran
        /\ Len(cleaned[r].before) > Len(cleaned[r].after)
        /\ BriefingAnswered(r)
        /\ reqs[r].resp.status = 200
        /\ reqs[r].sent # <<>>
        /\ reqs[r].resp.body.bufferSize > Len(cleaned[r].after)
        /\ Len(transcriptBuffer) > Len(cleaned[r].after)

HasEarlierSummaryOf(r, buf) ==
    /\ BriefingAnswered(r)
    /\ reqs[r].resp.status = 200
    /\ reqs[r].sent # <<>>
    /\ buf # <<>>
    /\ IsSpaceJoined(reqs[r].sent[1].text, buf)

\* C23: a /briefing call whose eviction leaves entries issues one
\* summarization request, for the space-joined text of the buffer as that
\* eviction left it, and has no response until that request settles, also
\* when the slot's previous call was answered with a summary of the same
\* text; the step that answers issues no further request, and the summary of
\* its 200 response is the one its own request returned.
C23_EveryCallSummarizesAfresh ==
    [][\A r \in Reqs :
          /\ (BriefingObserved(r) /\ transcriptBuffer' # <<>>) =>
                /\ reqs'[r].pc = "summarize"
                /\ reqs'[r].resp = NoResp
                /\ Len(reqs'[r].sent) = 1
                /\ reqs'[r].sent[1].to
                      = "deepgram.listen.prerecorded.transcribeUrl"
                /\ IsSpaceJoined(reqs'[r].sent[1].text, transcriptBuffer')
          /\ (BriefingObserved(r) /\ HasEarlierSummaryOf(r, transcriptBuffer')) =>
                /\ reqs'[r].resp = NoResp
                /\ reqs'[r].sent
                      = <<SummarizeCall(reqs[r].sent[1].text)>>
          /\ \A outcome \in SummarizeOutcomes :
                BriefingReturn(r, outcome) =>
                    /\ reqs'[r].sent = reqs[r].sent
                    /\ BriefingAnswered(r)'
                    /\ outcome = "summary" =>
                          reqs'[r].resp.body.summary = "<results.summary.short>"
                    /\ outcome = "no_summary" =>
                          reqs'[r].resp.body.summary
                              = "Unable to generate summary"]_vars

C23_Witness ==
    \E r \in Reqs :
        /\ reqs[r].pc = "summarize"
        /\ reqs[r].resp = NoResp
        /\ Len(reqs[r].sent) = 1
        /\ cleaned[r].ran
        /\ cleaned[r].before = cleaned[r].after
        /\ Len(cleaned[r].after) = 2

---------------------------------------------------------------------------
(* Collaborator requests of one handler invocation *)

RequestsTo(sent, target) == { i \in 1..Len(sent) : sent[i].to = target }

Collaborators ==
    { "deepgram.listen.prerecorded.transcribeUrl", "deepgram.speak.request",
      "recall.play_audio" }

---------------------------------------------------------------------------
(* Two /listen connections at once *)

\* C25: with two connections, opening or closing one leaves the other
\* connection and its session as they are; a result of either session with a
\* non-whitespace character is appended to the one buffer, and its frame goes
\* to the peer of the connection of that session and to no other peer.
C25_SessionsAreSeparateAndShareTheBuffer ==
    [][\A c \in TwoConns :
          /\ \A ok \in BOOLEAN :
                Connect(c, ok) =>
                    \A d \in TwoConns \ {c} : conns'[d] = conns[d]
          /\ OnClose(c) =>
                \A d \in TwoConns \ {c} : conns'[d] = conns[d]
          /\ \A transcript \in TranscriptInputs :
                (/\ OnTranscript(c, transcript)
                 /\ IsText(transcript)
                 /\ HasInk(transcript.chars))
                => /\ transcriptBuffer' =
                         Append(transcriptBuffer,
                                [text |-> transcript.chars, timestamp |-> now])
                   /\ Len(wsOut'[c]) = Len(wsOut[c]) + 1
                   /\ wsOut'[c][Len(wsOut'[c])].text = transcript.chars
                   /\ \A d \in TwoConns \ {c} : wsOut'[d] = wsOut[d]]_vars

C25_Witness ==
    /\ \A c \in TwoConns : conns[c] = [ws |-> "open", deepgramLive |-> "live"]
    /\ Len(transcriptBuffer) = 2
    /\ transcriptBuffer[1].text = <<"h", "i">>
    /\ transcriptBuffer[2].text = <<" ", "o", "k">>
    /\ wsOut["recall"] = <<TranscriptFrame(<<" ", "o", "k">>, 0)>>
    /\ wsOut["other"] = <<TranscriptFrame(<<"h", "i">>, 0)>>

---------------------------------------------------------------------------
(* The bot id registry over time *)

\* C26: once the registry holds a bot id, every step leaves it holding a
\* truthy one (a rejected registration, /speak, /briefing and the /listen
\* events included), and a /speak call with non-empty text made then is not
\* answered "Bot ID not set".
C26_RegistryIsNeverCleared ==
    [][/\ currentBotId # Null =>
             currentBotId' # Null /\ Truthy(currentBotId')
       /\ \A r \in Reqs, text \in SpeakTextInputs :
             (/\ currentBotId # Null
              /\ IsText(text)
              /\ text.chars # <<>>
              /\ SpeakStart(r, text))
             => /\ reqs'[r].resp.status # 400
                /\ reqs'[r].pc = "tts_request"]_vars

C26_Witness ==
    \E r \in Reqs :
        /\ currentBotId # Null
        /\ SetBotIdAnswered(r)
        /\ reqs[r].resp.status = 400

\* C27: every playback request of a /speak call is addressed to the bot id
\* the registry held when the call ran its test for a registered bot,
\* whatever was registered while its synthesis was in flight.
C27_PlaybackGoesToTheCheckedBot ==
    \A r \in TwoReqs :
        \A i \in 1..Len(reqs[r].sent) :
            IsPlayAudio(reqs[r].sent[i]) => reqs[r].sent[i].botId = checked[r]

---------------------------------------------------------------------------
(* Every request is answered *)

InFlight(r) == reqs[r].pc \in {"summarize", "tts_request", "tts_stream", "play_audio"}

\* the five responses of /speak
IsSpeakResponse(resp) ==
    \/ /\ resp.status = 400
       /\ resp.body = [error |-> "text field is required"]
    \/ /\ resp.status = 400
       /\ resp.body = [error |-> "Bot ID not set. Use POST /set-bot-id first."]
    \/ /\ resp.status = 500
       /\ Has(resp.body, "error")
       /\ ~ Has(resp.body, "success")
    \/ /\ resp.status = 200
       /\ Has(resp.body, "success")
       /\ resp.body.success = TRUE
    \/ /\ resp.status = 200
       /\ Has(resp.body, "success")
       /\ resp.body.success = FALSE
       /\ Has(resp.body, "error")

\* C28: when every collaborator call settles, a handler that awaits one is
\* answered at some later time; a handler has no response while it awaits and
\* has one, with status 200, 400 or 500, when it is done, after which it takes
\* no step of its own; and a /speak response is 400 for a missing text, 400
\* for no registered bot, 500, 200 with success true or 200 with success false.
C28_EveryRequestIsAnsweredOnce ==
    /\ \A r \in Reqs : InFlight(r) ~> (reqs[r].pc = "done")
    /\ [](\A r \in Reqs :
            /\ InFlight(r) => reqs[r].resp = NoResp
            /\ reqs[r].pc = "done" => reqs[r].resp.status \in {200, 400, 500}
            /\ SpeakAnswered(r) => IsSpeakResponse(reqs[r].resp))
    /\ [][\A r \in Reqs :
            /\ InFlight(r) =>
                  \/ reqs'[r] = reqs[r]
                  \/ reqs'[r].pc = "done" /\ reqs'[r].endpoint = reqs[r].endpoint
                  \/ InFlight(r)' /\ reqs'[r].endpoint = reqs[r].endpoint
                                  /\ reqs'[r].pc # reqs[r].pc
            /\ reqs[r].pc = "done" =>
                  \A ok \in BOOLEAN, outcome \in SummarizeOutcomes :
                      /\ ~ BriefingReturn(r, outcome)
                      /\ ~ SpeakRequestReturn(r, ok)
                      /\ ~ SpeakPlayReturn(r, ok)]_vars

C28_Witness ==
    \E r \in Reqs :
        /\ SpeakAnswered(r)
        /\ reqs[r].resp.status = 200
        /\ reqs[r].resp.body.success = TRUE
        /\ Len(reqs[r].sent) = 2

---------------------------------------------------------------------------
(* What each handler leaves alone *)

SharedStateUnchanged ==
    transcriptBuffer' = transcriptBuffer /\ currentBotId' = currentBotId

IsSpeakStep(r) ==
    \/ \E text \in SpeakTextInputs : SpeakStart(r, text)
    \/ \E ok \in BOOLEAN : SpeakRequestReturn(r, ok)
    \/ \E outcome \in StreamOutcomes : SpeakStreamReturn(r, outcome)
    \/ \E ok \in BOOLEAN : SpeakPlayReturn(r, ok)

IsBriefingStep(r) ==
    \/ Briefing(r)
    \/ \E outcome \in SummarizeOutcomes : BriefingReturn(r, outcome)

IsListenStep(c) ==
    \/ \E ok \in BOOLEAN : Connect(c, ok)
    \/ \E frame \in ListenFrames : OnMessage(c, frame)
    \/ \E transcript \in TranscriptInputs : OnTranscript(c, transcript)
    \/ OnDeepgramError(c)
    \/ OnClose(c)

IsRequestStep(r) ==
    \/ Health(r)
    \/ \E botId \in BotIdInputs : SetBotId(r, botId)
    \/ IsSpeakStep(r)
    \/ IsBriefingStep(r)

\* C29: the steps of /speak and of GET / leave the buffer and the bot id as
\* they are; a step of /set-bot-id leaves the buffer; the steps of /briefing
\* and the events of a /listen connection leave the bot id; and a step in
\* which a request is answered 400 leaves both.
C29_SharedStateHasOneWriterEach ==
    [][/\ \A r \in Reqs :
            /\ (IsSpeakStep(r) \/ Health(r)) => SharedStateUnchanged
            /\ (\E botId \in BotIdInputs : SetBotId(r, botId))
                  => transcriptBuffer' = transcriptBuffer
            /\ IsBriefingStep(r) => currentBotId' = currentBotId
            /\ (IsRequestStep(r) /\ reqs'[r].resp.status = 400)
                  => SharedStateUnchanged
       /\ \A c \in Conns : IsListenStep(c) => currentBotId' = currentBotId]_vars

C29_Witness ==
    \E r \in Reqs :
        /\ SetBotIdAnswered(r)
        /\ reqs[r].resp.status = 400
        /\ Truthy(currentBotId)
        /\ transcriptBuffer # <<>>

============================================================================
